---- MODULE Spec2Model ----
(***************************************************************************)
(* A model of contact_form/forms.py: ContactForm, AkismetContactForm and   *)
(* ReCaptchaContactForm.  A form instance is a record of its attributes;   *)
(* each action is one call of a method of the form by the view code.  The  *)
(* collaborators (template engine, mail transport, Akismet, reCAPTCHA) are *)
(* modelled by their outcome, chosen by the environment at each call.      *)
(*                                                                         *)
(* A string is abstracted to its shape: pad is the number of leading and   *)
(* trailing whitespace characters, len the length of what is left once     *)
(* they are stripped, wf whether that rest is a well-formed e-mail         *)
(* address.  A rendered template is a sequence of characters.              *)
(***************************************************************************)
EXTENDS Integers, Sequences, FiniteSets, TLC

VARIABLES
    forms,                \* instance -> the ContactForm object's attributes
    class_recipient_list, \* the class attribute ContactForm.recipient_list
    sent,                 \* the calls of send_mail, in order
    akismet_calls,        \* the calls of Akismet.comment_check, in order
    last,                 \* the latest method call and how it ended
    validate_ok,          \* instance -> an explicit is_valid() returned True
    first_result,         \* instance -> the first validation result observed
    init_args,            \* instance -> the arguments its __init__ was given
    saves_done            \* instance -> the save() calls that got to send_mail

vars == <<forms, class_recipient_list, sent, akismet_calls, last, validate_ok,
          first_result, init_args, saves_done>>

(******************************* bounds ************************************)
MaxSends == 2          \* save() calls that reach send_mail, per behaviour
MaxSubjectLen == 3     \* characters of a rendered subject template

(************************** field declarations *****************************)
NameMaxLength == 100
LastNameMaxLength == 100
PhoneNumberMaxLength == 100
EmailMaxLength == 200
TitleMaxLength == 200

BaseFields == {"name", "last_name", "phone_number", "email", "title", "body"}
AllFields == BaseFields \cup {"captcha"}

Kinds == {"ContactForm", "AkismetContactForm", "ReCaptchaContactForm"}

\* The fields a form class declares: ReCaptchaContactForm adds captcha.
FieldsOf(kind) ==
    IF kind = "ReCaptchaContactForm" THEN AllFields ELSE BaseFields

\* The fields declared with max_length; body is declared without one.
HasMaxLength(f) == f \in {"name", "last_name", "phone_number", "email", "title"}

max_length(f) ==
    CASE f = "name" -> NameMaxLength
      [] f = "last_name" -> LastNameMaxLength
      [] f = "phone_number" -> PhoneNumberMaxLength
      [] f = "email" -> EmailMaxLength
      [] f = "title" -> TitleMaxLength

(***************************** string shapes *******************************)
V(pad, len, wf) == [present |-> TRUE, pad |-> pad, len |-> len, wf |-> wf]
Absent == [present |-> FALSE, pad |-> 0, len |-> 0, wf |-> FALSE]

RawLen(v) == v.pad + v.len

\* CharField.to_python: a missing key becomes the empty string, and the
\* value is stripped of surrounding whitespace (strip=True is the default).
to_python(v) ==
    IF v.present THEN V(0, v.len, v.wf) ELSE V(0, 0, FALSE)

\* Field.clean of a declared field: required, then the validators
\* (MaxLengthValidator where max_length is given, EmailValidator for email).
MutFieldErrorsNoMaxLength(f, v) ==
    LET c == to_python(v) IN
    IF c.len = 0 THEN {"required"}
    ELSE IF f = "email" /\ ~c.wf THEN {"invalid"} ELSE {}

field_errors(f, v) ==
    LET c == to_python(v) IN
    IF c.len = 0 THEN {"required"}
    ELSE (IF HasMaxLength(f) /\ c.len > max_length(f)
             THEN {"max_length"} ELSE {})
         \cup (IF f = "email" /\ ~c.wf THEN {"invalid"} ELSE {})

SPAM_MESSAGE == "Your message was classified as spam."

(***************************** the request *********************************)
NoRequest == "None"
Requests == {"request"}
META(request, key) ==
    IF key = "REMOTE_ADDR" THEN "203.0.113.7" ELSE "Mozilla/5.0"

\* settings.MANAGERS, as read when the class body runs.
ManagersRecipients == <<"manager@example.com">>

NoOverride == [given |-> FALSE, value |-> <<>>]
Override(l) == [given |-> TRUE, value |-> l]

NoData == [f \in AllFields |-> Absent]
NoErrors == [f \in AllFields |-> {}]

Unconstructed ==
    [phase |-> "none", kind |-> "ContactForm", is_bound |-> FALSE,
     data |-> NoData, request |-> NoRequest, recipient_list |-> NoOverride,
     checked |-> FALSE, errors |-> NoErrors, cleaned_data |-> NoData]

(****************************** construction *******************************)
\* ContactForm.__init__ on a fresh object self of class kind; cls is the
\* class attribute recipient_list.  data and recipient_list are optional
\* arguments ([given |-> FALSE, ...] is None).
MutInitNoRequestCheck(self, cls, kind, data, request, recipient_list) ==
    [raised |-> "none",
     cls |-> cls,
     self |-> [self EXCEPT !.phase = "live", !.kind = kind,
                           !.request = request,
                           !.recipient_list = recipient_list,
                           !.is_bound = data.given,
                           !.data = IF data.given THEN data.value ELSE NoData]]

MutInitSetsClassAttribute(self, cls, kind, data, request, recipient_list) ==
    IF request = NoRequest
    THEN [raised |-> "TypeError", cls |-> cls,
          self |-> [self EXCEPT !.phase = "failed"]]
    ELSE [raised |-> "none",
          cls |-> IF recipient_list.given THEN recipient_list.value ELSE cls,
          self |-> [self EXCEPT !.phase = "live", !.kind = kind,
                                !.request = request,
                                !.is_bound = data.given,
                                !.data = IF data.given THEN data.value
                                         ELSE NoData]]

form_init(self, cls, kind, data, request, recipient_list) ==
    IF request = NoRequest
    THEN [raised |-> "TypeError", cls |-> cls,
          self |-> [self EXCEPT !.phase = "failed"]]
    ELSE [raised |-> "none",
          cls |-> cls,
          self |-> [self EXCEPT !.phase = "live", !.kind = kind,
                                !.request = request,
                                !.recipient_list = recipient_list,
                                !.is_bound = data.given,
                                !.data = IF data.given THEN data.value
                                         ELSE NoData]]

\* getattr(self, 'recipient_list'): the instance attribute when __init__
\* set one, the class attribute otherwise.
recipient_list_of(self, cls) ==
    IF self.recipient_list.given THEN self.recipient_list.value ELSE cls

(******************************* validation ********************************)
Verdicts == {"ham", "spam", "ConfigurationError"}
Envs == [verdict : Verdicts, captcha_ok : BOOLEAN]

akismet_kwargs(request, cleaned_data) ==
    [user_ip |-> META(request, "REMOTE_ADDR"),
     user_agent |-> META(request, "HTTP_USER_AGENT"),
     comment_author |-> cleaned_data["name"],
     comment_author_email |-> cleaned_data["email"],
     comment_content |-> cleaned_data["body"],
     comment_type |-> "contact-form"]

\* AkismetContactForm.clean_body.  verdict is what the Akismet library does:
\* the constructor raises ConfigurationError when the key or the URL is not
\* resolved (comment_check is then not reached), comment_check answers
\* spam (True) or ham (False).  Absent stands for None.
MutCleanBodyNeedsAuthor(cleaned_data, request, verdict) ==
    IF cleaned_data["body"].present /\ cleaned_data["name"].present
       /\ cleaned_data["email"].present
    THEN IF verdict = "ConfigurationError"
         THEN [raised |-> "ConfigurationError", calls |-> <<>>, value |-> Absent]
         ELSE [raised |-> IF verdict = "spam" THEN "ValidationError" ELSE "none",
               calls |-> <<[kwargs |-> akismet_kwargs(request, cleaned_data),
                            answer |-> verdict = "spam"]>>,
               value |-> IF verdict = "spam" THEN Absent
                         ELSE cleaned_data["body"]]
    ELSE [raised |-> "none", calls |-> <<>>, value |-> cleaned_data["body"]]

MutCleanBodyIgnoresVerdict(cleaned_data, request, verdict) ==
    IF cleaned_data["body"].present
    THEN IF verdict = "ConfigurationError"
         THEN [raised |-> "ConfigurationError", calls |-> <<>>, value |-> Absent]
         ELSE [raised |-> "none",
               calls |-> <<[kwargs |-> akismet_kwargs(request, cleaned_data),
                            answer |-> verdict = "spam"]>>,
               value |-> cleaned_data["body"]]
    ELSE [raised |-> "none", calls |-> <<>>, value |-> Absent]

clean_body(cleaned_data, request, verdict) ==
    IF cleaned_data["body"].present
    THEN IF verdict = "ConfigurationError"
         THEN [raised |-> "ConfigurationError", calls |-> <<>>, value |-> Absent]
         ELSE [raised |-> IF verdict = "spam" THEN "ValidationError" ELSE "none",
               calls |-> <<[kwargs |-> akismet_kwargs(request, cleaned_data),
                            answer |-> verdict = "spam"]>>,
               value |-> IF verdict = "spam" THEN Absent
                         ELSE cleaned_data["body"]]
    ELSE [raised |-> "none", calls |-> <<>>, value |-> Absent]

\* Field.clean of field f of the form: the declared field's own errors,
\* and for the captcha field the answer of the verification service.
declared_errors(self, env) ==
    [f \in AllFields |->
        IF f \notin FieldsOf(self.kind) THEN {}
        ELSE IF f = "captcha" /\ self.data[f].present /\ self.data[f].len > 0
                /\ ~env.captcha_ok
        THEN {"captcha_invalid"}
        ELSE field_errors(f, self.data[f])]

\* cleaned_data once every declared field was cleaned: the fields without
\* an error, converted.
declared_cleaned(self, e0) ==
    [f \in AllFields |->
        IF f \in FieldsOf(self.kind) /\ e0[f] = {}
        THEN to_python(self.data[f]) ELSE Absent]

Checked(self, e, c) ==
    [self EXCEPT !.checked = TRUE, !.errors = e, !.cleaned_data = c]

\* How Form._clean_fields takes what clean_body did: a ValidationError
\* becomes the body's error and removes body from cleaned_data, the value
\* returned replaces cleaned_data['body'], and any other exception leaves
\* full_clean half-way, with _errors already set.
after_clean_body(self, e0, c0, cb) ==
    [raised |-> IF cb.raised = "ConfigurationError" THEN cb.raised ELSE "none",
     calls |-> cb.calls,
     self |-> CASE cb.raised = "ConfigurationError" -> Checked(self, e0, c0)
                [] cb.raised = "ValidationError" ->
                     Checked(self, [e0 EXCEPT !["body"] = {SPAM_MESSAGE}],
                             [c0 EXCEPT !["body"] = Absent])
                [] OTHER -> Checked(self, e0, [c0 EXCEPT !["body"] = cb.value])]

\* clean_<name> runs only for a field whose own clean passed, and only
\* AkismetContactForm defines one (clean_body).
clean_fields(self, env, e0, c0) ==
    IF self.kind = "AkismetContactForm" /\ c0["body"].present
    THEN after_clean_body(self, e0, c0,
                          clean_body(c0, self.request, env.verdict))
    ELSE [raised |-> "none", calls |-> <<>>, self |-> Checked(self, e0, c0)]

errors_then_clean(self, env, e0) ==
    clean_fields(self, env, e0, declared_cleaned(self, e0))

\* Form.full_clean of a bound form, as the classes of forms.py make it run:
\* every declared field in declaration order (body is the last of the base
\* fields, captcha comes after them), with clean_body after the body field.
full_clean(self, env) ==
    errors_then_clean(self, env, declared_errors(self, env))

HasErrors(self) == \E f \in AllFields : self.errors[f] # {}

validity_of(r) ==
    [raised |-> r.raised, calls |-> r.calls, self |-> r.self,
     valid |-> r.raised = "none" /\ ~HasErrors(r.self)]

\* self.is_valid(): is_bound and not self.errors, where reading errors runs
\* full_clean the first time.  valid is the value returned when nothing is
\* raised.
MutIsValidRevalidates(self, env) ==
    IF ~self.is_bound
    THEN [raised |-> "none", calls |-> <<>>, self |-> self, valid |-> FALSE]
    ELSE validity_of(full_clean(self, env))

is_valid(self, env) ==
    IF ~self.is_bound
    THEN [raised |-> "none", calls |-> <<>>, self |-> self, valid |-> FALSE]
    ELSE IF self.checked
    THEN [raised |-> "none", calls |-> <<>>, self |-> self,
          valid |-> ~HasErrors(self)]
    ELSE validity_of(full_clean(self, env))

(******************************** rendering ********************************)
\* The characters of a rendered template: two ordinary ones, and three of
\* the line boundaries str.splitlines knows (\n, \r, and U+2028 for the
\* ones outside ASCII line ends); CR LF together end one line.
Chars == {"a", "b", "LF", "CR", "LS"}
LineBreaks == {"LF", "CR", "LS"}

RECURSIVE SeqsUpTo(_, _)
SeqsUpTo(S, n) ==
    IF n = 0 THEN {<<>>}
    ELSE SeqsUpTo(S, n - 1)
         \cup {Append(t, c) : t \in {u \in SeqsUpTo(S, n - 1) : Len(u) = n - 1},
                              c \in S}

\* The index of the first character of s in B from k on, or 0.
RECURSIVE FirstIn(_, _, _)
FirstIn(s, B, k) ==
    IF k > Len(s) THEN 0
    ELSE IF s[k] \in B THEN k
    ELSE FirstIn(s, B, k + 1)

\* The index of the last character of the line end that starts at k.
LineEnd(s, B, k) ==
    IF k < Len(s) /\ s[k] = "CR" /\ s[k + 1] = "LF" /\ "LF" \in B
    THEN k + 1 ELSE k

RECURSIVE SplitOn(_, _)
SplitAt(s, B, k) ==
    IF k = 0 THEN <<s>>
    ELSE <<SubSeq(s, 1, k - 1)>>
         \o SplitOn(SubSeq(s, LineEnd(s, B, k) + 1, Len(s)), B)

\* The lines of s without their line ends, B being the line boundaries.
SplitOn(s, B) ==
    IF s = <<>> THEN <<>> ELSE SplitAt(s, B, FirstIn(s, B, 1))

MutSplitOnNewlineOnly(s) == SplitOn(s, {"LF"})

\* str.splitlines()
splitlines(s) == SplitOn(s, LineBreaks)

\* ''.join(lines)
RECURSIVE join(_)
join(lines) ==
    IF lines = <<>> THEN <<>> ELSE Head(lines) \o join(Tail(lines))

get_current_site(request) == "example.com"

NoContext == [cleaned_data |-> NoData, site |-> "None"]

context_of(v) ==
    [raised |-> IF v.raised # "none" THEN v.raised
                ELSE IF ~v.valid THEN "ValueError" ELSE "none",
     calls |-> v.calls,
     self |-> v.self,
     value |-> IF v.raised = "none" /\ v.valid
               THEN [cleaned_data |-> v.self.cleaned_data,
                     site |-> get_current_site(v.self.request)]
               ELSE NoContext]

\* ContactForm.get_context
get_context(self, env) == context_of(is_valid(self, env))

rendered(c, text) ==
    [raised |-> c.raised, calls |-> c.calls, self |-> c.self,
     value |-> IF c.raised = "none" THEN text ELSE <<>>]

\* ContactForm.subject; out is what the template engine renders for the
\* subject template and the context.
subject(self, env, out) ==
    rendered(get_context(self, env), join(splitlines(out)))

\* ContactForm.message
message(self, env, out) == rendered(get_context(self, env), out)

\* ContactForm.from_email (the method, which shadows the class attribute)
from_email(self) ==
    <<self.cleaned_data["name"], self.cleaned_data["email"]>>

NoMessageDict ==
    [from_email |-> <<Absent, Absent>>, message |-> <<>>,
     recipient_list |-> <<>>, subject |-> <<>>]

refused(v) ==
    [raised |-> IF v.raised # "none" THEN v.raised ELSE "ValueError",
     calls |-> v.calls, self |-> v.self, value |-> NoMessageDict]

message_parts(v, recipients, env, subject_out, message_out) ==
    [raised |-> "none", calls |-> v.calls, self |-> v.self,
     value |-> [from_email |-> from_email(v.self),
                message |-> message(v.self, env, message_out).value,
                recipient_list |-> recipients,
                subject |-> subject(v.self, env, subject_out).value]]

MutDictOfNoCheck(v, cls, env, subject_out, message_out) ==
    IF v.raised # "none" THEN refused(v)
    ELSE [raised |-> "none", calls |-> v.calls, self |-> v.self,
          value |-> [from_email |-> from_email(v.self),
                     message |-> message_out,
                     recipient_list |-> recipient_list_of(v.self, cls),
                     subject |-> join(splitlines(subject_out))]]

message_dict_of(v, cls, env, subject_out, message_out) ==
    IF v.raised # "none" \/ ~v.valid THEN refused(v)
    ELSE message_parts(v, recipient_list_of(v.self, cls), env, subject_out,
                       message_out)

\* ContactForm.get_message_dict
get_message_dict(self, cls, env, subject_out, message_out) ==
    message_dict_of(is_valid(self, env), cls, env, subject_out, message_out)

\* django.core.mail.send_mail as save calls it: a failing transport raises
\* unless fail_silently is set.
Transports == {"delivered", "fails"}
send_mail(fail_silently, transport) ==
    IF transport = "fails" /\ ~fail_silently THEN "TransportError" ELSE "none"

not_sent(d) ==
    [raised |-> d.raised, calls |-> d.calls, self |-> d.self, mails |-> <<>>]

MutSendOnlyFirstTime(d, fail_silently, transport) ==
    IF d.raised # "none" \/ sent # <<>> THEN not_sent(d)
    ELSE [raised |-> send_mail(fail_silently, transport), calls |-> d.calls,
          self |-> d.self, mails |-> <<d.value>>]

MutSendNeverSilent(d, fail_silently, transport) ==
    IF d.raised # "none" THEN not_sent(d)
    ELSE [raised |-> send_mail(FALSE, transport), calls |-> d.calls,
          self |-> d.self, mails |-> <<d.value>>]

\* send_mail(fail_silently=fail_silently, **d): mails is the list of the
\* send_mail calls made.
send_of(d, fail_silently, transport) ==
    IF d.raised # "none" THEN not_sent(d)
    ELSE [raised |-> send_mail(fail_silently, transport), calls |-> d.calls,
          self |-> d.self, mails |-> <<d.value>>]

\* ContactForm.save
save(self, cls, env, fail_silently, subject_out, message_out, transport) ==
    send_of(get_message_dict(self, cls, env, subject_out, message_out),
            fail_silently, transport)

(********************************* actions *********************************)
Tag(i, calls) ==
    [k \in 1..Len(calls) |->
        [inst |-> i, kwargs |-> calls[k].kwargs, answer |-> calls[k].answer]]

\* What a call that ended with `raised` showed of the form's validity.
Observe(i, shown) ==
    first_result' = IF first_result[i] = "none" /\ shown # "none"
                    THEN [first_result EXCEPT ![i] = shown]
                    ELSE first_result

ShownBy(raised) ==
    CASE raised \in {"none", "TransportError"} -> "valid"
      [] raised = "ValueError" -> "invalid"
      [] OTHER -> "none"

Called(i, op, r, arg, value) ==
    /\ forms' = [forms EXCEPT ![i] = r.self]
    /\ akismet_calls' = akismet_calls \o Tag(i, r.calls)
    /\ last' = [inst |-> i, op |-> op, outcome |-> r.raised, arg |-> arg,
                value |-> value]

Constructed(i, r, arg) ==
    /\ forms' = [forms EXCEPT ![i] = r.self]
    /\ class_recipient_list' = r.cls
    /\ last' = [inst |-> i, op |-> "__init__", outcome |-> r.raised,
                arg |-> arg, value |-> "None"]

\* form = Kind(data=..., request=..., recipient_list=...)
CallInit(i, kind, data, request, recipient_list) ==
    /\ forms[i].phase = "none"
    /\ Constructed(i, form_init(forms[i], class_recipient_list, kind, data,
                                request, recipient_list),
                   [request |-> request, data |-> data,
                    recipient_list |-> recipient_list])
    /\ init_args' = [init_args EXCEPT
                       ![i] = [called |-> TRUE, request |-> request,
                               recipient_list |-> recipient_list]]
    /\ UNCHANGED <<sent, akismet_calls, validate_ok, first_result, saves_done>>

Validated(i, r) ==
    /\ Called(i, "is_valid", r, "None", r.valid)
    /\ validate_ok' = [validate_ok EXCEPT
                         ![i] = @ \/ (r.raised = "none" /\ r.valid)]
    /\ Observe(i, IF r.raised # "none" THEN "none"
                  ELSE IF r.valid THEN "valid" ELSE "invalid")

\* form.is_valid()
CallIsValid(i, env) ==
    /\ forms[i].phase = "live"
    /\ Validated(i, is_valid(forms[i], env))
    /\ UNCHANGED <<class_recipient_list, sent, init_args, saves_done>>

Returned(i, op, r, arg) ==
    /\ Called(i, op, r, arg, r.value)
    /\ Observe(i, ShownBy(r.raised))

\* form.get_context()
CallGetContext(i, env) ==
    /\ forms[i].phase = "live"
    /\ Returned(i, "get_context", get_context(forms[i], env), "None")
    /\ UNCHANGED <<class_recipient_list, sent, validate_ok, init_args,
                   saves_done>>

\* form.subject()
CallSubject(i, env, out) ==
    /\ forms[i].phase = "live"
    /\ Returned(i, "subject", subject(forms[i], env, out), out)
    /\ UNCHANGED <<class_recipient_list, sent, validate_ok, init_args,
                   saves_done>>

\* form.message()
CallMessage(i, env, out) ==
    /\ forms[i].phase = "live"
    /\ Returned(i, "message", message(forms[i], env, out), out)
    /\ UNCHANGED <<class_recipient_list, sent, validate_ok, init_args,
                   saves_done>>

\* form.get_message_dict()
CallGetMessageDict(i, env, subject_out, message_out) ==
    /\ forms[i].phase = "live"
    /\ Returned(i, "get_message_dict",
                get_message_dict(forms[i], class_recipient_list, env,
                                 subject_out, message_out), "None")
    /\ UNCHANGED <<class_recipient_list, sent, validate_ok, init_args,
                   saves_done>>

Saved(i, r, arg) ==
    /\ saves_done[i] < MaxSends
    /\ Len(sent) + Len(r.mails) <= MaxSends
    /\ Called(i, "save", r, arg, "None")
    /\ sent' = sent \o [k \in 1..Len(r.mails) |->
                          [inst |-> i, message_dict |-> r.mails[k]]]
    /\ saves_done' = [saves_done EXCEPT
                        ![i] = IF r.raised \in {"none", "TransportError"}
                               THEN @ + 1 ELSE @]
    /\ Observe(i, ShownBy(r.raised))

\* form.save(fail_silently=...)
CallSave(i, env, fail_silently, subject_out, message_out, transport) ==
    /\ forms[i].phase = "live"
    /\ Saved(i, save(forms[i], class_recipient_list, env, fail_silently,
                     subject_out, message_out, transport),
             [fail_silently |-> fail_silently, transport |-> transport])
    /\ UNCHANGED <<class_recipient_list, validate_ok, init_args>>

(****************************** submissions ********************************)
Good == V(0, 1, TRUE)
GoodToken == V(0, 1, FALSE)
Base == [f \in AllFields |-> IF f = "captcha" THEN GoodToken ELSE Good]

\* The shapes tried for one field: missing key, empty, blank, shortest,
\* at the ceiling with and without padding, one over, and for email the
\* ill-formed address.
FieldValues(f) ==
    IF f = "captcha" THEN {Absent, GoodToken}
    ELSE IF f = "body"
    THEN {Absent, V(0, 0, FALSE), V(1, 0, FALSE), Good, V(1, 1, TRUE),
          V(0, TitleMaxLength + 1, TRUE)}
    ELSE {Absent, V(0, 0, FALSE), V(1, 0, FALSE), Good,
          V(0, max_length(f), TRUE), V(1, max_length(f), TRUE),
          V(0, max_length(f) + 1, TRUE)}
         \cup (IF f = "email" THEN {V(0, 1, FALSE)} ELSE {})

\* Every submission that differs from a valid one in at most two fields.
Submissions ==
    {[Base EXCEPT ![f] = v, ![g] = w] :
        <<f, v>> \in UNION {{<<h, x>> : x \in FieldValues(h)} : h \in AllFields},
        <<g, w>> \in UNION {{<<h, x>> : x \in FieldValues(h)} : h \in AllFields}}

FewSubmissions ==
    {Base,
     [Base EXCEPT !["body"] = V(1, 1, TRUE)],
     [Base EXCEPT !["name"] = Absent],
     [Base EXCEPT !["email"] = V(0, 1, FALSE)],
     [Base EXCEPT !["body"] = Absent],
     [Base EXCEPT !["captcha"] = Absent]}

DataArgs(S) == {[given |-> FALSE, value |-> NoData]}
               \cup {[given |-> TRUE, value |-> d] : d \in S}

OtherRecipients == <<"sales@example.com">>
RecipientArgs == {NoOverride, Override(OtherRecipients), Override(<<>>)}

SubjectOutputs == SeqsUpTo(Chars, MaxSubjectLen)
FewOutputs == {<<"a">>, <<"a", "LF", "b">>}

NoCall == [inst |-> 0, op |-> "none", outcome |-> "none", arg |-> "None",
           value |-> "None"]

InitOn(I) ==
    /\ forms = [i \in I |-> Unconstructed]
    /\ class_recipient_list = ManagersRecipients
    /\ sent = <<>>
    /\ akismet_calls = <<>>
    /\ last = NoCall
    /\ validate_ok = [i \in I |-> FALSE]
    /\ first_result = [i \in I |-> "none"]
    /\ init_args = [i \in I |-> [called |-> FALSE, request |-> NoRequest,
                                  recipient_list |-> NoOverride]]
    /\ saves_done = [i \in I |-> 0]

(************ one form through its life: every method, any order ***********)
Init == InitOn({1})

Next ==
    \/ \E kind \in Kinds, data \in DataArgs(FewSubmissions),
          request \in Requests \cup {NoRequest},
          rl \in {NoOverride, Override(OtherRecipients)} :
            CallInit(1, kind, data, request, rl)
    \/ \E env \in Envs : CallIsValid(1, env)
    \/ \E env \in Envs : CallGetContext(1, env)
    \/ \E env \in Envs, out \in FewOutputs : CallSubject(1, env, out)
    \/ \E env \in Envs : CallMessage(1, env, <<"b">>)
    \/ \E env \in Envs, out \in FewOutputs :
            CallGetMessageDict(1, env, out, <<"b">>)
    \/ \E env \in Envs, fs \in BOOLEAN, out \in FewOutputs, t \in Transports :
            CallSave(1, env, fs, out, <<"b">>, t)

Spec == Init /\ [][Next]_vars

(********* validation alone, over every submission shape considered ********)
InitFields == InitOn({1})

NextFields ==
    \/ \E kind \in Kinds, data \in DataArgs(Submissions),
          request \in Requests \cup {NoRequest} :
            CallInit(1, kind, data, request, NoOverride)
    \/ \E env \in Envs : CallIsValid(1, env)

SpecFields == InitFields /\ [][NextFields]_vars

(************** the subject line, over every template output ***************)
InitSubject == InitOn({1})

PlainEnv == [verdict |-> "ham", captcha_ok |-> TRUE]

NextSubject ==
    \/ \E kind \in {"ContactForm", "AkismetContactForm"},
          d \in {Base, [Base EXCEPT !["name"] = Absent]} :
            CallInit(1, kind, [given |-> TRUE, value |-> d], "request",
                     NoOverride)
    \/ \E out \in SubjectOutputs : CallSubject(1, PlainEnv, out)
    \/ \E out \in SubjectOutputs :
            CallGetMessageDict(1, PlainEnv, out, <<"b">>)

SpecSubject == InitSubject /\ [][NextSubject]_vars

(******************** two forms alive in the same process ******************)
OtherName == [Base EXCEPT !["name"] = V(0, 2, TRUE)]
HamEnvs == {e \in Envs : e.verdict = "ham"}

InitShared == InitOn({1, 2})

NextShared ==
    \E i \in {1, 2} :
        \/ \E kind \in {"ContactForm", "ReCaptchaContactForm"},
              data \in DataArgs({Base, OtherName}), rl \in RecipientArgs :
                CallInit(i, kind, data, "request", rl)
        \/ \E env \in HamEnvs : CallGetMessageDict(i, env, <<"a">>, <<"b">>)
        \/ \E env \in HamEnvs :
                CallSave(i, env, FALSE, <<"a">>, <<"b">>, "delivered")

SpecShared == InitShared /\ [][NextShared]_vars

(******************************** properties *******************************)
RenderOps == {"get_context", "get_message_dict", "save"}

\* What is_valid() answers for the form as it stands, validation having run.
ValidNow(self) == self.is_bound /\ self.checked /\ ~HasErrors(self)

SentBy(i) == {k \in 1..Len(sent) : sent[k].inst = i}
ChecksBy(i) == {k \in 1..Len(akismet_calls) : akismet_calls[k].inst = i}

\* C1 as claimed: while no explicit is_valid() has returned True on the
\* form, get_context(), get_message_dict() and save() raise ValueError and
\* send no mail.  (The calls whose own validation stops on the Akismet
\* configuration error are left aside: they fail too, with that error.)
C1_FailsUntilValidateSucceeded ==
    /\ (last.op \in RenderOps /\ ~validate_ok[last.inst]
        /\ last.outcome # "ConfigurationError")
           => last.outcome = "ValueError"
    /\ \A k \in 1..Len(sent) : validate_ok[sent[k].inst]

\* C1, amended: get_context(), get_message_dict() and save() raise
\* ValueError exactly on a form that is not valid (unbound, or bound with
\* errors), whatever was called before and however often; on a valid form
\* they validate by themselves and go through; and every mail sent comes
\* from a valid form.
C1_InvalidAlwaysFails ==
    /\ (last.op \in RenderOps /\ last.outcome # "ConfigurationError")
           => (last.outcome = "ValueError" <=> ~ValidNow(forms[last.inst]))
    /\ \A k \in 1..Len(sent) : ValidNow(forms[sent[k].inst])

\* An invalid form on which save() failed after get_context() or another
\* call had already shown it invalid, with no explicit is_valid() success.
C1_Witness ==
    /\ last.op = "save" /\ last.outcome = "ValueError"
    /\ first_result[last.inst] = "invalid"
    /\ forms[last.inst].is_bound /\ HasErrors(forms[last.inst])
    /\ ~validate_ok[last.inst]
    /\ SentBy(last.inst) = {}

\* C2 as claimed: save(fail_silently=True) never raises, in any state of
\* the form and for any transport outcome, and save(fail_silently=False)
\* raises the transport's failure.  (Calls stopped by the Akismet
\* configuration error are left aside.)
C2_SilentSaveNeverRaises ==
    (last.op = "save" /\ last.outcome # "ConfigurationError") =>
        /\ last.arg.fail_silently => last.outcome = "none"
        /\ (~last.arg.fail_silently /\ last.arg.transport = "fails")
               => last.outcome = "TransportError"

\* C2, amended: fail_silently decides about transport failures only.  On a
\* valid form save(fail_silently=True) returns whatever the transport does
\* and save(fail_silently=False) raises the transport's failure; on a form
\* that is not valid save() raises ValueError whatever fail_silently is.
C2_SilentSaveSwallowsTransport ==
    (last.op = "save" /\ last.outcome # "ConfigurationError") =>
        last.outcome =
            IF ~ValidNow(forms[last.inst]) THEN "ValueError"
            ELSE IF last.arg.transport = "fails" /\ ~last.arg.fail_silently
            THEN "TransportError"
            ELSE "none"

\* A valid form whose save(fail_silently=True) returned although the
\* transport failed, the mail having been handed to send_mail.
C2_Witness ==
    /\ last.op = "save" /\ last.arg.fail_silently
    /\ last.arg.transport = "fails" /\ last.outcome = "none"
    /\ ValidNow(forms[last.inst]) /\ SentBy(last.inst) # {}

\* C3 as claimed: one form never causes more than one send_mail call, and
\* an invalid one causes none.
C3_AtMostOneSend ==
    \A i \in DOMAIN forms :
        /\ Cardinality(SentBy(i)) <= 1
        /\ ~ValidNow(forms[i]) => SentBy(i) = {}

\* C3, amended: every save() that gets past validation calls send_mail
\* exactly once, so a form saved twice sends two mails; a save() that
\* raises ValueError, and a form that is not valid, send none.
C3_OneSendPerSave ==
    \A i \in DOMAIN forms :
        /\ Cardinality(SentBy(i)) = saves_done[i]
        /\ ~ValidNow(forms[i]) => SentBy(i) = {}

\* A form saved twice, with two mails sent.
C3_Witness ==
    \E i \in DOMAIN forms :
        saves_done[i] = 2 /\ Cardinality(SentBy(i)) = 2 /\ last.op = "save"

\* C7: __init__ without a request raises TypeError whatever data and
\* recipient_list are, for each of the three classes, and leaves no form:
\* nothing is ever validated, rendered or sent through that object.
C7_RequestRequired ==
    /\ \A i \in DOMAIN forms :
          (init_args[i].called /\ init_args[i].request = NoRequest) =>
              /\ forms[i].phase = "failed"
              /\ ~forms[i].checked /\ ~forms[i].is_bound
              /\ forms[i].request = NoRequest
              /\ SentBy(i) = {} /\ ChecksBy(i) = {}
              /\ first_result[i] = "none"
    /\ (last.op = "__init__" /\ last.arg.request = NoRequest)
           => last.outcome = "TypeError"
    /\ \A i \in DOMAIN forms : forms[i].phase = "live" =>
           forms[i].request # NoRequest

\* A construction of the Akismet form with data and a recipient list but
\* no request.
C7_Witness ==
    /\ last.op = "__init__" /\ last.outcome = "TypeError"
    /\ last.arg.request = NoRequest
    /\ last.arg.data.given /\ last.arg.recipient_list.given
    /\ forms[last.inst].phase = "failed"

Blank(v) == ~v.present \/ v.len = 0

\* C4 as claimed: each of the six fields has a length ceiling, and a
\* validated submission in which one of them is missing or longer than its
\* ceiling is invalid with that field among the errors.  (For body, which
\* declares no ceiling, the claim is read with the largest ceiling declared
\* in the form; a body of any length passes, so no other reading fares
\* better.)
C4_SixCeilings ==
    \A i \in DOMAIN forms : (forms[i].is_bound /\ forms[i].checked) =>
        \A f \in BaseFields :
            (~forms[i].data[f].present
             \/ RawLen(forms[i].data[f])
                   > (IF HasMaxLength(f) THEN max_length(f) ELSE TitleMaxLength))
                => (forms[i].errors[f] # {} /\ ~ValidNow(forms[i]))

\* C4, amended: the six fields are required, and name, last_name,
\* phone_number, email and title have a ceiling, which bounds the value
\* once its surrounding whitespace is stripped; body has none.  A field
\* that is missing, empty or blank, or whose stripped value is longer than
\* its ceiling, makes the form invalid and is among the errors; a value
\* within the ceiling once stripped is not refused for its length, and a
\* body is never refused for its length.
C4_RequiredAndFiveCeilings ==
    \A i \in DOMAIN forms : (forms[i].is_bound /\ forms[i].checked) =>
        \A f \in BaseFields :
            LET v == forms[i].data[f] IN
            /\ (Blank(v) \/ (HasMaxLength(f) /\ v.len > max_length(f)))
                   => (forms[i].errors[f] # {} /\ ~ValidNow(forms[i]))
            /\ (~Blank(v) /\ (HasMaxLength(f) => v.len <= max_length(f)))
                   => forms[i].errors[f] \subseteq {"invalid", SPAM_MESSAGE}
            /\ "invalid" \in forms[i].errors[f] => (f = "email" /\ ~v.wf)

\* A validated submission without a name and with a title over its
\* ceiling, both among the errors.
C4_Witness ==
    \E i \in DOMAIN forms :
        /\ forms[i].checked /\ ~forms[i].data["name"].present
        /\ forms[i].data["title"].len > TitleMaxLength
        /\ forms[i].errors["name"] # {} /\ forms[i].errors["title"] # {}

OtherwiseValid(self) ==
    \A f \in BaseFields : field_errors(f, self.data[f]) = {}

\* C5 as claimed: for an Akismet form whose fields pass, a spam answer
\* makes the form invalid with the fixed message on body, and a ham answer
\* makes it valid with a cleaned body equal to the body submitted.
C5_CleanedBodyIsSubmitted ==
    \A k \in 1..Len(akismet_calls) :
        LET self == forms[akismet_calls[k].inst] IN
        OtherwiseValid(self) =>
            IF akismet_calls[k].answer
            THEN ~ValidNow(self) /\ self.errors["body"] = {SPAM_MESSAGE}
            ELSE ValidNow(self) /\ self.cleaned_data["body"] = self.data["body"]

\* C5, amended: ... and a ham answer makes it valid with a cleaned body
\* equal to the body submitted without its surrounding whitespace (the
\* value the body field itself cleaned).
C5_SpamVerdictDecides ==
    \A k \in 1..Len(akismet_calls) :
        LET self == forms[akismet_calls[k].inst] IN
        OtherwiseValid(self) =>
            IF akismet_calls[k].answer
            THEN /\ ~ValidNow(self)
                 /\ self.errors["body"] = {SPAM_MESSAGE}
                 /\ \A f \in AllFields \ {"body"} : self.errors[f] = {}
            ELSE /\ ValidNow(self)
                 /\ self.cleaned_data["body"] = to_python(self.data["body"])

\* An Akismet form with passing fields that Akismet called spam.
C5_Witness ==
    \E k \in 1..Len(akismet_calls) :
        /\ akismet_calls[k].answer
        /\ OtherwiseValid(forms[akismet_calls[k].inst])
        /\ forms[akismet_calls[k].inst].errors["body"] = {SPAM_MESSAGE}
        /\ last.op = "is_valid" /\ last.value = FALSE

NotLineBreak(c) == c \notin LineBreaks

\* C6: the subject returned holds no line boundary, and is the template's
\* output without its line boundaries, the other characters kept in order;
\* so is the subject of the message dictionary.
C6_SubjectOneLine ==
    /\ (last.op = "subject" /\ last.outcome = "none") =>
          /\ \A k \in 1..Len(last.value) : last.value[k] \notin LineBreaks
          /\ last.value = SelectSeq(last.arg, NotLineBreak)
    /\ (last.op = "get_message_dict" /\ last.outcome = "none") =>
          \A k \in 1..Len(last.value.subject) :
              last.value.subject[k] \notin LineBreaks

\* A subject rendered from an output with CR LF inside and text around.
C6_Witness ==
    /\ last.op = "subject" /\ last.outcome = "none"
    /\ last.arg = <<"a", "CR", "LF">> \/ last.arg = <<"CR", "LF", "b">>
    /\ Len(last.value) = 1

ExpectedRecipients(i) ==
    IF init_args[i].recipient_list.given
    THEN init_args[i].recipient_list.value
    ELSE ManagersRecipients

\* C8: the recipients of a form's message are the list its own __init__
\* was given, or settings.MANAGERS' addresses when it was given none,
\* whatever was submitted and whatever other forms were given.
C8_RecipientsConfigured ==
    /\ (last.op = "get_message_dict" /\ last.outcome = "none") =>
          last.value.recipient_list = ExpectedRecipients(last.inst)
    /\ \A k \in 1..Len(sent) :
          sent[k].message_dict.recipient_list = ExpectedRecipients(sent[k].inst)
    /\ class_recipient_list = ManagersRecipients

\* Two live forms, one given a list and one not; the one given none has
\* just built its message for the default recipients.
C8_Witness ==
    /\ last.op = "get_message_dict" /\ last.outcome = "none"
    /\ ~init_args[last.inst].recipient_list.given
    /\ last.value.recipient_list = ManagersRecipients
    /\ \E j \in DOMAIN forms :
          /\ j # last.inst /\ forms[j].phase = "live"
          /\ init_args[j].recipient_list.given
          /\ init_args[j].recipient_list.value = OtherRecipients

\* What the latest call showed of the form's validity.
ShownByLast ==
    IF last.op = "is_valid"
    THEN (IF last.outcome # "none" THEN "none"
          ELSE IF last.value THEN "valid" ELSE "invalid")
    ELSE IF last.op \in RenderOps \cup {"subject", "message"}
    THEN ShownBy(last.outcome)
    ELSE "none"

\* C9: once validation has run on a form, no later call changes the form
\* (its errors, its cleaned data), or asks Akismet again; every call shows
\* the validity the first one showed, and Akismet is asked at most once
\* for a form.
C9_ValidationIdempotent ==
    /\ [](/\ ShownByLast # "none" => ShownByLast = first_result[last.inst]
          /\ \A i \in DOMAIN forms : Cardinality(ChecksBy(i)) <= 1)
    /\ [][\A i \in DOMAIN forms : forms[i].checked =>
              /\ forms'[i] = forms[i]
              /\ akismet_calls' = akismet_calls]_vars

\* An Akismet form validated by an explicit is_valid() and then saved
\* twice: three calls that validate, and Akismet was asked once.
C9_Witness ==
    /\ last.op = "save" /\ last.outcome = "none"
    /\ forms[last.inst].kind = "AkismetContactForm"
    /\ validate_ok[last.inst] /\ saves_done[last.inst] = 2
    /\ Cardinality(ChecksBy(last.inst)) = 1
    /\ first_result[last.inst] = "valid"

PassedOrAbsent(self, f) ==
    IF field_errors(f, self.data[f]) = {} THEN to_python(self.data[f])
    ELSE Absent

\* C10: the step that validates an Akismet form asks Akismet exactly when
\* the body field itself passed (and the Akismet library is configured),
\* whether or not name and email passed; it passes the cleaned body, and
\* for name and email the cleaned value, or None for one that failed.  No
\* other step asks Akismet.
C10_CheckOnlyAfterBodyPassed ==
    [][/\ \A i \in DOMAIN forms :
            (forms[i].kind = "AkismetContactForm" /\ forms[i].phase = "live"
             /\ ~forms[i].checked /\ forms'[i].checked) =>
                IF field_errors("body", forms[i].data["body"]) = {}
                   /\ last'.outcome # "ConfigurationError"
                THEN /\ Len(akismet_calls') = Len(akismet_calls) + 1
                     /\ LET c == akismet_calls'[Len(akismet_calls')] IN
                        /\ c.inst = i
                        /\ c.kwargs.comment_content
                               = to_python(forms[i].data["body"])
                        /\ c.kwargs.comment_author
                               = PassedOrAbsent(forms[i], "name")
                        /\ c.kwargs.comment_author_email
                               = PassedOrAbsent(forms[i], "email")
                ELSE akismet_calls' = akismet_calls
       /\ akismet_calls' # akismet_calls =>
            \E i \in DOMAIN forms :
                /\ forms[i].kind = "AkismetContactForm"
                /\ ~forms[i].checked /\ forms'[i].checked
                /\ field_errors("body", forms[i].data["body"]) = {}]_vars

\* Akismet asked about a submission whose name failed: the author passed
\* is None.
C10_Witness ==
    \E k \in 1..Len(akismet_calls) :
        /\ akismet_calls[k].kwargs.comment_author = Absent
        /\ forms[akismet_calls[k].inst].errors["name"] # {}
        /\ akismet_calls[k].kwargs.comment_content.len > 0

====
